---- MODULE Spec2Model ----
(***************************************************************************)
(* Model of lookout.py: ranking of source files by churn x complexity.     *)
(*                                                                         *)
(* Three specifications share the module:                                  *)
(*   SpecBrowser - ModuleComplexityBrowser: clean_dict and                 *)
(*                 get_total_complexity over bounded analyzer results;     *)
(*   Spec        - get_refactoring_scores end to end: churn collection and *)
(*                 per-file analysis under _temp_chdir, then the score     *)
(*                 engine, for git logs of at most MaxEvents lines;        *)
(*   SpecEngine  - the score engine (lines 134-152) started from every     *)
(*                 pair of maps lines 128-132 can have built.              *)
(*                                                                         *)
(* A finite float is written num/den: the double nearest to that exact     *)
(* rational (NaN and +inf are the two other classes).  Everything the      *)
(* program does with a double is decided by the exact value except         *)
(* np.round at an exact rounding tie; there the double itself, with its    *)
(* binary64 rounding error, is computed.  Results of np.round(x, 2) are    *)
(* kept in the canonical form num/100.                                     *)
(***************************************************************************)
EXTENDS Integers, Sequences, FiniteSets, TLC

\* ------------------------------------------------------------------ bounds
MaxItems == 3   \* members the analyzer reports for one file (SpecBrowser)
MaxLine  == 3   \* largest line number the analyzer reports
MaxCC    == 2   \* largest cyclomatic complexity of one member
MaxChurn == 2   \* largest number of git log events for one file
MaxEvents == 3  \* lines of git log output in an end-to-end run (Spec)

\* --------------------------------------------------------- float arithmetic
Fin(n, d) == [cls |-> "fin", num |-> n, den |-> d]
NaN       == [cls |-> "nan", num |-> 0, den |-> 1]
Inf       == [cls |-> "inf", num |-> 0, den |-> 1]

\* a / b for a >= 0 with b a numpy scalar: 0/0 is nan, x/0 is inf, no raise.
TrueDiv(a, b) ==
    IF b # 0 THEN Fin(a, b)
    ELSE IF a = 0 THEN NaN ELSE Inf

FloatAdd(x, y) ==
    IF x.cls = "nan" \/ y.cls = "nan" THEN NaN
    ELSE IF x.cls = "inf" \/ y.cls = "inf" THEN Inf
    ELSE IF x.den = y.den THEN Fin(x.num + y.num, x.den)
    ELSE Fin(x.num * y.den + y.num * x.den, x.den * y.den)

\* x * n for an integer n >= 0.
FloatMul(x, n) ==
    IF x.cls = "nan" THEN NaN
    ELSE IF x.cls = "inf" THEN (IF n = 0 THEN NaN ELSE Inf)
    ELSE Fin(x.num * n, x.den)

\* --------------------------------------------------------- binary64 doubles
\* A natural number as its bits, most significant first; 0 is << >>.
\* A non-negative double is [m |-> bits, e |-> exponent]: the value m * 2^e
\* with m of at most 53 bits.
RECURSIVE Bits(_)
Bits(n) == IF n = 0 THEN << >> ELSE Append(Bits(n \div 2), n % 2)

RECURSIVE BitsToInt(_)
BitsToInt(b) ==
    IF b = << >> THEN 0
    ELSE 2 * BitsToInt(SubSeq(b, 1, Len(b) - 1)) + b[Len(b)]

Zeros(k)  == [i \in 1..k |-> 0]
Shl(b, k) == IF b = << >> THEN << >> ELSE b \o Zeros(k)

\* b without its leading zeros.
Strip(b) ==
    IF \A i \in 1..Len(b) : b[i] = 0 THEN << >>
    ELSE SubSeq(b, CHOOSE i \in 1..Len(b) :
                       b[i] = 1 /\ \A j \in 1..(i - 1) : b[j] = 0, Len(b))

\* a + b + c for a and b of equal length: the sum bits s of that length
\* and the carry out c (the low half is added first, its carry feeds the
\* high half).
RECURSIVE AddCarry(_, _, _)
AddCarry(a, b, c) ==
    IF Len(a) = 0 THEN [s |-> << >>, c |-> c]
    ELSE IF Len(a) = 1
    THEN [s |-> <<(a[1] + b[1] + c) % 2>>, c |-> (a[1] + b[1] + c) \div 2]
    ELSE LET h  == Len(a) \div 2
             lo == AddCarry(SubSeq(a, h + 1, Len(a)), SubSeq(b, h + 1, Len(b)),
                            c)
             hi == IF lo.c = 1 THEN AddCarry(SubSeq(a, 1, h), SubSeq(b, 1, h), 1)
                   ELSE AddCarry(SubSeq(a, 1, h), SubSeq(b, 1, h), 0)
         IN  [s |-> hi.s \o lo.s, c |-> hi.c]

BitsAdd(a, b) ==
    LET n == IF Len(a) > Len(b) THEN Len(a) ELSE Len(b)
        r == AddCarry(Zeros(n - Len(a)) \o a, Zeros(n - Len(b)) \o b, 0)
    IN  Strip(<<r.c>> \o r.s)

RECURSIVE BitsMul(_, _)
BitsMul(b, k) ==
    IF k = 0 THEN << >>
    ELSE BitsAdd(IF k % 2 = 1 THEN b ELSE << >>, Shl(BitsMul(b, k \div 2), 1))

\* Long division by the integer d of the bits b brought down after a
\* running remainder r < d: the quotient bits (one per bit of b) and the
\* final remainder.
RECURSIVE BitsDivMod(_, _, _)
BitsDivMod(b, r, d) ==
    IF Len(b) = 0 THEN [q |-> << >>, r |-> r]
    ELSE IF Len(b) = 1
    THEN [q |-> <<IF 2 * r + b[1] >= d THEN 1 ELSE 0>>,
          r |-> IF 2 * r + b[1] >= d THEN 2 * r + b[1] - d ELSE 2 * r + b[1]]
    ELSE LET h  == Len(b) \div 2
             hi == BitsDivMod(SubSeq(b, 1, h), r, d)
             lo == CHOOSE v \in {BitsDivMod(SubSeq(b, h + 1, Len(b)), rr, d) :
                                     rr \in {hi.r}} : TRUE
         IN  [q |-> hi.q \o lo.q, r |-> lo.r]

\* Round the natural b (plus a fraction below its last bit when sticky) to
\* 53 bits, to nearest, ties to even: the result is m * 2^e.
RoundTo53(b, sticky) ==
    IF Len(b) <= 53 THEN [m |-> b, e |-> 0]
    ELSE LET top == SubSeq(b, 1, 53)
             up  == /\ b[54] = 1
                    /\ \/ sticky
                       \/ \E i \in 55..Len(b) : b[i] = 1
                       \/ top[53] = 1
             m   == IF up THEN BitsAdd(top, <<1>>) ELSE top
         IN  IF Len(m) = 54 THEN [m |-> SubSeq(m, 1, 53), e |-> Len(b) - 52]
             ELSE [m |-> m, e |-> Len(b) - 53]

DblZero == [m |-> << >>, e |-> 0]

\* The double a / d of two positive integers (both exact as doubles).
fl_div(a, d) ==
    IF a = 0 THEN DblZero
    ELSE LET k  == 64 + Len(Bits(d))
             dm == BitsDivMod(Shl(Bits(a), k), 0, d)
             r  == RoundTo53(Strip(dm.q), dm.r # 0)
         IN  [m |-> r.m, e |-> r.e - k]

fl_add(x, y) ==
    IF x.m = << >> THEN y
    ELSE IF y.m = << >> THEN x
    ELSE LET e == IF x.e < y.e THEN x.e ELSE y.e
             r == RoundTo53(BitsAdd(Shl(x.m, x.e - e), Shl(y.m, y.e - e)),
                            FALSE)
         IN  [m |-> r.m, e |-> e + r.e]

\* x * k for an integer k.
fl_mul(x, k) ==
    LET r == RoundTo53(BitsMul(x.m, k), FALSE)
    IN  IF r.m = << >> THEN DblZero ELSE [m |-> r.m, e |-> x.e + r.e]

\* rint(x) as an integer: nearest integer, ties to even.
rint(x) ==
    IF x.e >= 0 THEN BitsToInt(Shl(x.m, x.e))
    ELSE IF -x.e > Len(x.m) THEN 0
    ELSE LET n    == Len(x.m) + x.e
             ip   == SubSeq(x.m, 1, n)
             rest == \E i \in (n + 2)..Len(x.m) : x.m[i] = 1
             odd  == ip # << >> /\ ip[Len(ip)] = 1
         IN  BitsToInt(ip) + (IF x.m[n + 1] = 1 /\ (rest \/ odd) THEN 1 ELSE 0)

\* The double a finite float record stands for: the one it carries in dbl
\* when it is the result of a sum, else the quotient num / den.
Dbl(x) == IF "dbl" \in DOMAIN x THEN x.dbl ELSE fl_div(x.num, x.den)

\* 100 * num / den lies exactly halfway between two integers.
IsTie(x) == x.cls = "fin" /\ 2 * ((100 * x.num) % x.den) = x.den

\* np.round(x, 2): rint(x * 100) / 100; nan and inf pass through.  Off a
\* tie the rounding error of the double (a few 2^-53) cannot move x * 100
\* across the halfway point; on a tie the double decides.
Round2(x) ==
    IF x.cls # "fin" THEN x
    ELSE LET n == 100 * x.num
             q == n \div x.den
             r == n % x.den
         IN  Fin(IF 2 * r < x.den THEN q
                 ELSE IF 2 * r > x.den THEN q + 1
                 ELSE rint(fl_mul(Dbl(x), 100)), 100)

isfinite(x) == x.cls = "fin"
isnan(x)    == x.cls = "nan"

FloatLess(x, y) == x.num * y.den < y.num * x.den   \* both finite
FloatLeq(x, y)  == x.num * y.den <= y.num * x.den  \* both finite

\* res += a[i] over ds, in order.
RECURSIVE SumLeft(_, _)
SumLeft(res, ds) ==
    IF ds = << >> THEN res ELSE SumLeft(fl_add(res, ds[1]), Tail(ds))

\* numpy's pairwise summation of a contiguous array of doubles: a plain
\* loop below 8 elements, eight running sums up to 128, halves above.
RECURSIVE pairwise_sum(_)
pairwise_sum(ds) ==
    LET n == Len(ds)
    IN  IF n < 8 THEN SumLeft(DblZero, ds)
        ELSE IF n <= 128 THEN
            LET nb   == n - (n % 8)
                r(j) == SumLeft(ds[j], [k \in 1..((nb \div 8) - 1) |->
                                           ds[j + 8 * k]])
                res  == fl_add(fl_add(fl_add(r(1), r(2)), fl_add(r(3), r(4))),
                               fl_add(fl_add(r(5), r(6)), fl_add(r(7), r(8))))
            IN  SumLeft(res, SubSeq(ds, nb + 1, n))
        ELSE
            LET n2 == (n \div 2) - ((n \div 2) % 8)
            IN  fl_add(pairwise_sum(SubSeq(ds, 1, n2)),
                       pairwise_sum(SubSeq(ds, n2 + 1, n)))

\* The exact sum of the terms (addition of exact values is associative).
RECURSIVE ExactSum(_)
ExactSum(terms) ==
    IF terms = << >> THEN Fin(0, 1)
    ELSE IF Len(terms) = 1 THEN terms[1]
    ELSE FloatAdd(ExactSum(SubSeq(terms, 1, Len(terms) \div 2)),
                  ExactSum(SubSeq(terms, Len(terms) \div 2 + 1, Len(terms))))

\* np.sum over a Python list of floats; np.sum([]) is 0.0.  The result
\* carries its double when np.round will need it.
FloatSum(terms) ==
    LET x == ExactSum(terms)
    IN  IF IsTie(x)
        THEN [cls |-> "fin", num |-> x.num, den |-> x.den,
              dbl |-> pairwise_sum([i \in DOMAIN terms |-> Dbl(terms[i])])]
        ELSE x

RECURSIVE IntSum(_)
IntSum(xs) == IF xs = << >> THEN 0 ELSE xs[1] + IntSum(Tail(xs))

\* ------------------------------------------------------------------- paths
\* A path string is the sequence of its components (the parts between
\* separators), and a component the sequence of the pieces of text that
\* make it up: a/x__pycache__y.py is <<<<"a">>, <<"x", "__pycache__", "y",
\* ".py">>>>.  An occurrence of __pycache__ and a final .py are always
\* pieces of their own, so that the two string tests of the program can be
\* made on pieces.
dirname(p)  == SubSeq(p, 1, Len(p) - 1)
basename(p) == p[Len(p)]
Range(s)    == {s[i] : i \in DOMAIN s}

\* The orders in which a collection without a defined order (a set, a
\* directory listing) can yield its elements.
RECURSIVE Orders(_)
Orders(S) ==
    IF S = {} THEN {<< >>}
    ELSE UNION {{<<x>> \o o : o \in Orders(S \ {x})} : x \in S}

\* --------------------------------------------------- analyzer result (radon)
\* One entry of CCHarvester._to_dicts() for a file.
\* <<lineno, endline>> of a block.
Spans == {<<a, b>> \in (1..MaxLine) \X (1..MaxLine) : a <= b}
Item(t, c, n, cc, sp) ==
    [type |-> t, classname |-> c, name |-> n, rank |-> "A",
     complexity |-> cc, lineno |-> sp[1], endline |-> sp[2]]
Items ==
    {Item("function", "", "f", cc, sp) : cc \in 1..MaxCC, sp \in Spans}
    \cup {Item("class", "", "A", cc, sp) : cc \in 1..MaxCC, sp \in Spans}
    \cup {Item("method", "A", "m", cc, sp) : cc \in 1..MaxCC, sp \in Spans}

\* The analyzer lists a method only along with its class (ranks A to F are
\* all kept), and a method lies inside the lines of its class.
AnalyzerShaped(s) ==
    \A i \in DOMAIN s :
        s[i].type = "method" =>
            \E j \in DOMAIN s :
                /\ s[j].type = "class" /\ s[j].name = s[i].classname
                /\ s[j].lineno < s[i].lineno /\ s[i].endline <= s[j].endline

\* The dict returned by analyze([basename]): {} when the file has no block,
\* {basename: {'error': ...}} on an analysis error, {basename: [items]} else.
EmptyDic      == [keys |-> {}, error |-> FALSE, items |-> << >>]
ErrorDic(b)   == [keys |-> {b}, error |-> TRUE, items |-> << >>]
ListDic(b, s) == [keys |-> {b}, error |-> FALSE, items |-> s]

\* ------------------------------------------------- ModuleComplexityBrowser
MemberName(item) ==
    IF item.type = "method" THEN <<item.classname, item.name>>
    ELSE <<item.name>>

MemberOf(item) ==
    [type |-> item.type, rank |-> item.rank, complexity |-> item.complexity,
     lineno |-> item.lineno, length |-> item.endline - item.lineno]

\* The for loop of clean_dict: a later item of the same name replaces the
\* earlier entry and keeps its position in the dict.
RECURSIVE AddMembers(_, _, _)
AddMembers(order, members, items) ==
    IF items = << >> THEN [order |-> order, members |-> members]
    ELSE LET name == MemberName(items[1])
         IN  AddMembers(
                IF name \in DOMAIN members THEN order ELSE Append(order, name),
                [n \in DOMAIN members \cup {name} |->
                    IF n = name THEN MemberOf(items[1]) ELSE members[n]],
                Tail(items))

NoMembers == [order |-> << >>, members |-> << >>]

clean_dict(path, d) ==
    IF d.keys = {} THEN NoMembers
    ELSE IF basename(path) \in d.keys /\ d.error THEN NoMembers
    ELSE AddMembers(<< >>, << >>, d.items)

\* self.summary.get('members').values(), in dict order.
Values(summary) == [i \in DOMAIN summary.order |-> summary.members[summary.order[i]]]

RECURSIVE SelectSeqFC(_)
SelectSeqFC(vs) ==
    IF vs = << >> THEN << >>
    ELSE IF vs[1].type \in {"function", "class"}
         THEN <<vs[1]>> \o SelectSeqFC(Tail(vs))
         ELSE SelectSeqFC(Tail(vs))

module_length(summary) ==
    IntSum([i \in DOMAIN SelectSeqFC(Values(summary)) |->
               SelectSeqFC(Values(summary))[i].length])

get_total_complexity(summary) ==
    LET vs == Values(summary)
        ml == module_length(summary)
    IN  Round2(FloatSum([i \in DOMAIN vs |->
                   TrueDiv(vs[i].complexity * vs[i].length, ml)]))

\* get_module_complexity(path), given what the analyzer returned for path.
get_module_complexity(path, d) == get_total_complexity(clean_dict(path, d))

\* ------------------------------------------------------------ file system
StartCwd == <<<<"home">>>>      \* working directory of the process at start
Root     == <<<<"repo">>>>      \* the path argument; also the git top level

\* Files below Root, relative to it.  OldPy is in the history only.
APy    == <<<<"a", ".py">>>>
BPy    == <<<<"b", ".py">>>>
CPy    == <<<<"pkg">>, <<"c", ".py">>>>
EPy    == <<<<"pkg">>, <<"e", ".py">>>>
DPyc   == <<<<"__pycache__">>, <<"d", ".py">>>>
Readme == <<<<"README", ".md">>>>
OldPy  == <<<<"old", ".py">>>>

TreeFiles    == {APy, BPy, CPy, EPy, DPyc, Readme}      \* exist on disk
HistoryFiles == TreeFiles \cup {OldPy}             \* named by git log

join(top, rel) == top \o rel
exists(p)      == p \in {join(Root, f) : f \in TreeFiles}

\* item.endswith('.py')
endswith_py(p) == basename(p)[Len(basename(p))] = ".py"

\* '__pycache__' in item: a substring test on the whole path string.
contains_pycache(p) ==
    \E i \in DOMAIN p : \E j \in DOMAIN p[i] : p[i][j] = "__pycache__"

\* Number of lines of a git log output.
RECURSIVE EventsIn(_, _)
EventsIn(log, S) ==
    IF S = {} THEN 0
    ELSE LET f == CHOOSE g \in S : TRUE
         IN  log[f] + EventsIn(log, S \ {f})
Events(log) == EventsIn(log, DOMAIN log)

\* get_churn_histogram after the with block: log maps each file git log
\* names to the number of events naming it.  Result as dict(...) of line 128.
get_churn_histogram(log) ==
    LET changed  == {join(Root, f) : f \in {g \in DOMAIN log : log[g] > 0}}
        py       == {p \in changed : endswith_py(p)}
        existing == {p \in py : exists(p)}
    IN  [p \in existing |-> log[CHOOSE f \in DOMAIN log : join(Root, f) = p]]

\* The directories of the tree (relative to Root), with the files and
\* the subdirectories each one lists.
Dirs       == UNION {{SubSeq(f, 1, k) : k \in 0..(Len(f) - 1)} :
                         f \in TreeFiles}
FilesIn(d) == {f \in TreeFiles : dirname(f) = d}
SubDirs(d) == {e \in Dirs : e # << >> /\ dirname(e) = d}

\* os.walk(d), top down, as the files it yields: the files of d, then the
\* walk of each subdirectory; the operating system decides the order in
\* which a directory lists its files and its subdirectories.
RECURSIVE Walks(_)
RECURSIVE WalkAll(_)
WalkAll(ds) ==
    IF ds = << >> THEN {<< >>}
    ELSE {w \o r : w \in Walks(ds[1]), r \in WalkAll(Tail(ds))}
Walks(d) ==
    {fs \o r : fs \in Orders(FilesIn(d)),
               r \in UNION {WalkAll(ds) : ds \in Orders(SubDirs(d))}}

RootWalks == Walks(<< >>)

RECURSIVE Filter(_, _)
Filter(s, kind) ==
    IF s = << >> THEN << >>
    ELSE IF (kind = "no_cache" /\ ~contains_pycache(s[1]))
            \/ (kind = "py" /\ endswith_py(s[1]))
         THEN <<s[1]>> \o Filter(Tail(s), kind)
         ELSE Filter(Tail(s), kind)

\* get_script_paths(path) when os.walk yields the files in the order walk.
get_script_paths(path, walk) ==
    LET sub_filepaths == [i \in DOMAIN walk |-> join(path, walk[i])]
        no_cache      == Filter(sub_filepaths, "no_cache")
    IN  Filter(no_cache, "py")

\* The analyzer results an end-to-end run draws from, a bounded sample of
\* those SpecBrowser enumerates in full: no block, analysis error, one
\* zero-length function, and functions of complexity 1.0 and 2.0.  They
\* give every class of module complexity the score engine tells apart
\* (0.0 from no data, NaN, and finite values that tie or differ in score).
SampleDicts(p) ==
    {EmptyDic,
     ErrorDic(basename(p)),
     ListDic(basename(p), <<Item("function", "", "f", 2, <<1, 1>>)>>),
     ListDic(basename(p), <<Item("function", "", "f", 1, <<1, 3>>)>>),
     ListDic(basename(p), <<Item("function", "", "f", 2, <<1, 2>>)>>)}

\* ------------------------------------------------------------ score engine
Reverse(s) == [i \in 1..Len(s) |-> s[Len(s) + 1 - i]]

\* key(a) < key(b) for key = lambda x: x[idx - 1].
KeyLess(idx, a, b) ==
    IF idx = 1 THEN FloatLess(a[1], b[1]) ELSE a[idx] < b[idx]

\* Stable insertion of x: after every element whose key is <= key(x).
RECURSIVE Insert(_, _, _)
Insert(s, x, idx) ==
    IF s = << >> THEN <<x>>
    ELSE IF KeyLess(idx, x, s[1]) THEN <<x>> \o s
    ELSE <<s[1]>> \o Insert(Tail(s), x, idx)

\* sorted(xs, key=lambda x: x[idx - 1]): ascending, stable.
RECURSIVE sorted(_, _)
sorted(xs, idx) ==
    IF xs = << >> THEN << >>
    ELSE Insert(sorted(SubSeq(xs, 1, Len(xs) - 1), idx), xs[Len(xs)], idx)

sortedNoReverse(xs, idx) == sorted(xs, idx)
sorted_reversed(xs, idx) == Reverse(sorted(xs, idx))

\* One pass of the merge loop (lines 139-142).
Entry(key, cplx, churn) ==
    [key |-> key, complexity |-> cplx[key], churn |-> churn[key],
     score |-> Round2(FloatMul(cplx[key], churn[key]))]

AsTuple(e) == <<e.score, e.complexity, e.churn, e.key>>

SelectNoFilter(res, bucket) == [i \in DOMAIN res |-> AsTuple(res[i])]
RECURSIVE Select(_, _)
Select(res, bucket) ==
    IF res = << >> THEN << >>
    ELSE IF (bucket = "finite" /\ isfinite(res[1].score))
            \/ (bucket = "nan" /\ isnan(res[1].score))
         THEN <<AsTuple(res[1])>> \o Select(Tail(res), bucket)
         ELSE Select(Tail(res), bucket)

orderable(res)     == sorted_reversed(Select(res, "finite"), 1)
not_orderable(res) == sorted_reversed(Select(res, "nan"), 3)

concatReversed(o, n) == n \o o
concat(o, n)         == o \o n

common(churn, cplx) == DOMAIN churn \cap DOMAIN cplx

\* The whole of lines 134-152 for one iteration order of common_keys.
RECURSIVE Merge(_, _, _)
Merge(order, churn, cplx) ==
    IF order = << >> THEN << >>
    ELSE <<Entry(order[1], cplx, churn)>> \o Merge(Tail(order), churn, cplx)

Engine(order, churn, cplx) ==
    LET res == Merge(order, churn, cplx)
    IN  concat(orderable(res), not_orderable(res))

\* ------------------------------------------------------------------- state
VARIABLES
    pc,                   \* position in get_refactoring_scores / "idle"
    cwd,                  \* os.getcwd() of the process
    saved_cwd,            \* cwd local of the active _temp_chdir generator
    bar,                  \* git log output: file -> number of events
    changes_histogram,    \* dict: path -> churn
    todo,                 \* sub_filepaths still to analyse, in list order
    cur,                  \* path of the ModuleComplexityBrowser being built
    analysis,             \* path -> dict the analyzer returned for it
    complexity_histogram, \* dict: path -> module complexity
    common_keys,
    orderable_files,
    not_orderable_files,
    ranking,              \* return value of get_refactoring_scores
    b_pc,                 \* position of the browser under SpecBrowser
    dic,                  \* analyzer result under SpecBrowser
    summary,              \* self.summary
    total                 \* return value of get_total_complexity

vars == <<pc, cwd, saved_cwd, bar, changes_histogram, todo, cur, analysis,
          complexity_histogram, common_keys, orderable_files,
          not_orderable_files, ranking, b_pc, dic, summary, total>>

enginevars  == <<pc, cwd, saved_cwd, bar, changes_histogram, todo, cur,
                 analysis, complexity_histogram, common_keys,
                 orderable_files, not_orderable_files, ranking>>
browservars == <<b_pc, dic, summary, total>>

NoFile   == << >>
BrowsedPath == join(Root, APy)   \* self.path under SpecBrowser

EngineIdle ==
    /\ cwd = StartCwd /\ saved_cwd = StartCwd
    /\ bar = << >> /\ changes_histogram = << >>
    /\ todo = << >> /\ cur = NoFile /\ analysis = << >>
    /\ complexity_histogram = << >> /\ common_keys = {}
    /\ orderable_files = << >>
    /\ not_orderable_files = << >> /\ ranking = << >>

BrowserIdle ==
    /\ b_pc = "idle" /\ dic = EmptyDic /\ summary = NoMembers
    /\ total = Fin(0, 100)

\* ------------------------------------------------- ModuleComplexityBrowser
\* analyze() has returned d; __init__ is about to call clean_dict.
InitBrowser ==
    /\ pc = "idle" /\ EngineIdle
    /\ b_pc = "analyzed"
    /\ \/ dic \in {EmptyDic, ErrorDic(basename(BrowsedPath))}
       \/ \E k \in 1..MaxItems : \E s \in [1..k -> Items] :
              /\ AnalyzerShaped(s)
              /\ dic = ListDic(basename(BrowsedPath), s)
    /\ summary = NoMembers
    /\ total = Fin(0, 100)

\* __init__, line 62.
CleanDict ==
    /\ b_pc = "analyzed"
    /\ summary' = clean_dict(BrowsedPath, dic)
    /\ b_pc' = "built"
    /\ UNCHANGED <<dic, total>>
    /\ UNCHANGED enginevars

\* get_total_complexity, lines 113-118.
GetTotalComplexity ==
    /\ b_pc = "built"
    /\ total' = get_total_complexity(summary)
    /\ b_pc' = "done"
    /\ UNCHANGED <<dic, summary>>
    /\ UNCHANGED enginevars

NextBrowser == CleanDict \/ GetTotalComplexity

SpecBrowser == InitBrowser /\ [][NextBrowser]_vars

\* -------------------------------------------------- get_refactoring_scores
Init ==
    /\ pc = "churn_enter" /\ EngineIdle /\ BrowserIdle

\* _temp_chdir(path) up to the yield, entered from get_churn_histogram.
ChurnEnter ==
    /\ pc = "churn_enter"
    /\ saved_cwd' = cwd
    /\ cwd' = Root
    /\ pc' = "churn_run"
    /\ UNCHANGED <<bar, changes_histogram, todo, cur, analysis,
                   complexity_histogram, common_keys,
                   orderable_files, not_orderable_files, ranking>>
    /\ UNCHANGED browservars

\* The two subprocess.run calls inside the with block return.
ChurnRun ==
    /\ pc = "churn_run"
    /\ \E log \in [HistoryFiles -> 0..MaxChurn] :
          /\ Events(log) <= MaxEvents
          /\ bar' = log
    /\ pc' = "churn_exit"
    /\ UNCHANGED <<cwd, saved_cwd, changes_histogram, todo, cur, analysis,
                   complexity_histogram, common_keys,
                   orderable_files, not_orderable_files, ranking>>
    /\ UNCHANGED browservars

\* subprocess.run raises inside the with block (git cannot be started): the
\* exception is thrown into the generator at the yield, which has no
\* try/finally, and propagates out of get_refactoring_scores.
ChurnRaise ==
    /\ pc = "churn_run"
    /\ pc' = "aborted"
    /\ UNCHANGED <<cwd, saved_cwd, bar, changes_histogram, todo, cur,
                   analysis, complexity_histogram, common_keys,
                   orderable_files, not_orderable_files, ranking>>
    /\ UNCHANGED browservars

\* The generator resumes after the yield; lines 34-44, 128 and 131 follow.
ChurnExit ==
    /\ pc = "churn_exit"
    /\ cwd' = saved_cwd
    /\ changes_histogram' = get_churn_histogram(bar)
    /\ bar' = << >>
    /\ \E walk \in RootWalks : todo' = get_script_paths(Root, walk)
    /\ pc' = "browse"
    /\ UNCHANGED <<saved_cwd, cur, analysis, complexity_histogram,
                   common_keys, orderable_files,
                   not_orderable_files, ranking>>
    /\ UNCHANGED browservars

\* ModuleComplexityBrowser(file).__init__ enters _temp_chdir(dirname).
BrowserEnter ==
    /\ pc = "browse"
    /\ todo # << >>
    /\ cur' = Head(todo)
    /\ todo' = Tail(todo)
    /\ saved_cwd' = cwd
    /\ cwd' = dirname(Head(todo))
    /\ pc' = "analyze"
    /\ UNCHANGED <<bar, changes_histogram, analysis, complexity_histogram,
                   common_keys, orderable_files,
                   not_orderable_files, ranking>>
    /\ UNCHANGED browservars

\* self.analyze returns inside the with block.
BrowserAnalyze ==
    /\ pc = "analyze"
    /\ \E d \in SampleDicts(cur) :
          analysis' = [p \in DOMAIN analysis \cup {cur} |->
                          IF p = cur THEN d ELSE analysis[p]]
    /\ pc' = "browser_exit"
    /\ UNCHANGED <<cwd, saved_cwd, bar, changes_histogram, todo, cur,
                   complexity_histogram, common_keys,
                   orderable_files, not_orderable_files, ranking>>
    /\ UNCHANGED browservars

\* self.analyze raises inside the with block.
BrowserRaise ==
    /\ pc = "analyze"
    /\ pc' = "aborted"
    /\ UNCHANGED <<cwd, saved_cwd, bar, changes_histogram, todo, cur,
                   analysis, complexity_histogram, common_keys,
                   orderable_files, not_orderable_files, ranking>>
    /\ UNCHANGED browservars

\* The generator resumes after the yield; clean_dict and
\* get_total_complexity follow (lines 62, 123, 132).
BrowserExit ==
    /\ pc = "browser_exit"
    /\ cwd' = saved_cwd
    /\ complexity_histogram' =
          [p \in DOMAIN complexity_histogram \cup {cur} |->
              IF p = cur THEN get_module_complexity(cur, analysis[cur])
              ELSE complexity_histogram[p]]
    /\ cur' = NoFile
    /\ pc' = IF todo = << >> THEN "join" ELSE "browse"
    /\ UNCHANGED <<saved_cwd, bar, changes_histogram, todo, analysis,
                   common_keys, orderable_files,
                   not_orderable_files, ranking>>
    /\ UNCHANGED browservars

\* Lines 134-152: join, merge loop, partition, sorts, concatenation.  The
\* set common_keys yields its elements in an order the program does not
\* control; results is the dict the loop fills, in insertion order.
ScoreEngine ==
    /\ pc = "join"
    /\ common_keys' = common(changes_histogram, complexity_histogram)
    /\ \E order \in Orders(common_keys') :
          LET results == Merge(order, changes_histogram, complexity_histogram)
          IN  /\ orderable_files' = orderable(results)
              /\ not_orderable_files' = not_orderable(results)
    /\ ranking' = concat(orderable_files', not_orderable_files')
    /\ pc' = "done"
    /\ UNCHANGED <<cwd, saved_cwd, bar, changes_histogram, todo, cur,
                   analysis, complexity_histogram>>
    /\ UNCHANGED browservars

Next ==
    \/ ChurnEnter \/ ChurnRun \/ ChurnRaise \/ ChurnExit
    \/ BrowserEnter \/ BrowserAnalyze \/ BrowserRaise \/ BrowserExit
    \/ ScoreEngine

Spec == Init /\ [][Next]_vars

\* ------------------------------------------------------- score engine alone
\* Every dict get_churn_histogram can return for the tree: existing .py
\* files, each with at least one event.
ChurnMaps ==
    LET py == {p \in {join(Root, f) : f \in HistoryFiles} :
                  endswith_py(p) /\ exists(p)}
    IN  UNION {[S -> 1..MaxChurn] : S \in SUBSET py}

\* The dicts line 132 builds from the sampled analyzer results: one module
\* complexity per script path.
ComplexityMaps ==
    LET paths == UNION {Range(get_script_paths(Root, walk)) :
                           walk \in RootWalks}
        values(p) == {get_module_complexity(p, d) : d \in SampleDicts(p)}
    IN  {m \in [paths -> UNION {values(p) : p \in paths}] :
            \A p \in paths : m[p] \in values(p)}

InitEngine ==
    /\ pc = "join"
    /\ cwd = StartCwd /\ saved_cwd = StartCwd
    /\ bar = << >> /\ todo = << >> /\ cur = NoFile /\ analysis = << >>
    /\ changes_histogram \in ChurnMaps
    /\ complexity_histogram \in ComplexityMaps
    /\ common_keys = {} /\ orderable_files = << >>
    /\ not_orderable_files = << >> /\ ranking = << >>
    /\ BrowserIdle

NextEngine == ScoreEngine

SpecEngine == InitEngine /\ [][NextEngine]_vars

\* ======================================================================
\* Properties
\* ======================================================================
Members(sm)   == {sm.members[n] : n \in DOMAIN sm.members}
FCNames(sm)   == {n \in DOMAIN sm.members :
                     sm.members[n].type \in {"function", "class"}}
MethodNames(sm) == {n \in DOMAIN sm.members : sm.members[n].type = "method"}

RECURSIVE SumOver(_, _, _)
SumOver(sm, names, what) ==
    IF names = {} THEN 0
    ELSE LET n == CHOOSE m \in names : TRUE
         IN  (IF what = "length" THEN sm.members[n].length
              ELSE sm.members[n].complexity * sm.members[n].length)
             + SumOver(sm, names \ {n}, what)

FCLength(sm)   == SumOver(sm, FCNames(sm), "length")
FCWeighted(sm) == SumOver(sm, FCNames(sm), "weighted")

\* C1: when the total function/class length is positive, the result is
\* round(sum(complexity*length) / sum(length), 2), both sums over the
\* function and class members only; method members change nothing.
C1_WeightedOverFunctionsAndClasses ==
    (b_pc = "done" /\ FCLength(summary) > 0)
        => total = Round2(Fin(FCWeighted(summary), FCLength(summary)))

\* C2: when the total function/class length is positive, the result lies
\* between the least and the greatest complexity of the individual members.
C2_BetweenMinAndMax ==
    (b_pc = "done" /\ FCLength(summary) > 0)
        => /\ isfinite(total)
           /\ \E m \in Members(summary) : FloatLeq(Fin(m.complexity, 1), total)
           /\ \E m \in Members(summary) : FloatLeq(total, Fin(m.complexity, 1))

\* C4: when every function/class member has length 0, the result is NaN,
\* whatever the complexities and whatever methods are present.
C4_AllZeroLengthIsNaN ==
    (b_pc = "done" /\ \A n \in FCNames(summary) : summary.members[n].length = 0)
        => total = NaN

\* A summary whose only function/class member has length 0 and the largest
\* complexity, beside a method of positive length (its class was defined
\* again on one line): the result is NaN.
C4_Witness ==
    /\ b_pc = "done"
    /\ \E n \in FCNames(summary) : summary.members[n].complexity = MaxCC
    /\ \A n \in FCNames(summary) : summary.members[n].length = 0
    /\ \E n \in MethodNames(summary) : summary.members[n].length > 0
    /\ total = NaN

\* ------------------------------------------------------------ end to end
NoData(p) == analysis[p].keys = {} \/ analysis[p].error

InBucket(bucket, p) == \E i \in DOMAIN bucket : bucket[i][4] = p

\* C3: a file the analyzer reports no data for has no members and
\* module complexity NaN, and with churn it ends in the not-orderable bucket.
C3_NoDataIsNaN ==
    \A p \in DOMAIN complexity_histogram :
        NoData(p) =>
            /\ DOMAIN clean_dict(p, analysis[p]).members = {}
            /\ complexity_histogram[p] = NaN
            /\ (pc = "done" /\ p \in DOMAIN changes_histogram)
                   => /\ InBucket(not_orderable_files, p)
                      /\ ~InBucket(orderable_files, p)

\* Two files with churn, one with an empty analyzer result and one with an
\* analysis error, have been ranked: both carry the finite score 0.0.
C3_Witness ==
    /\ pc = "done"
    /\ \E p, q \in DOMAIN changes_histogram \cap DOMAIN analysis :
          /\ analysis[p].keys = {}
          /\ analysis[q].error
          /\ complexity_histogram[p] = Fin(0, 100)
          /\ complexity_histogram[q] = Fin(0, 100)
          /\ InBucket(orderable_files, p) /\ InBucket(orderable_files, q)

\* C8: outside the scoped blocks the working directory is the one the
\* process had before, also after a block was left by an exception.
C8_CwdRestored ==
    pc \in {"browse", "join", "done", "aborted"} => cwd = StartCwd

\* ------------------------------------------------------------ score engine
Paths(seq) == {seq[i][4] : i \in DOMAIN seq}

\* C5: the ranking holds exactly the paths in both maps, each once, every
\* one in exactly one of the two buckets.
C5_Partition ==
    pc = "done" =>
        LET both == DOMAIN changes_histogram \cap DOMAIN complexity_histogram
        IN  /\ Paths(ranking) = both
            /\ Len(ranking) = Cardinality(both)
            /\ Len(orderable_files) + Len(not_orderable_files)
                   = Cardinality(both)
            /\ Paths(orderable_files) \cap Paths(not_orderable_files) = {}
            /\ Paths(orderable_files) \cup Paths(not_orderable_files) = both

C5_Witness ==
    /\ pc = "done"
    /\ orderable_files # << >> /\ not_orderable_files # << >>
    /\ DOMAIN changes_histogram \ DOMAIN complexity_histogram # {}
    /\ DOMAIN complexity_histogram \ DOMAIN changes_histogram # {}

\* The script paths in ascending lexical order of their strings:
\* /repo/a.py < /repo/b.py < /repo/pkg/c.py < /repo/pkg/e.py.
LexicalOrder == <<join(Root, APy), join(Root, BPy),
                  join(Root, CPy), join(Root, EPy)>>
PathRank(p) == CHOOSE i \in DOMAIN LexicalOrder : LexicalOrder[i] = p

\* (a.score, a.complexity, a.churn, a.path) >= (b.score, ...), both finite.
TupleGeq(a, b) ==
    \/ FloatLess(b[1], a[1])
    \/ /\ a[1] = b[1]
       /\ \/ FloatLess(b[2], a[2])
          \/ /\ a[2] = b[2]
             /\ \/ a[3] > b[3]
                \/ a[3] = b[3] /\ PathRank(a[4]) >= PathRank(b[4])

\* C6: adjacent orderable entries are in descending order of the tuple
\* (score, complexity, churn, path).
C6_TupleOrder ==
    pc = "done" =>
        \A i \in 1..(Len(orderable_files) - 1) :
            TupleGeq(orderable_files[i], orderable_files[i + 1])

\* C7: the ranking is the same for every iteration order of the common keys.
C7_Deterministic ==
    pc = "done" =>
        \A o \in Orders(common_keys) :
            Engine(o, changes_histogram, complexity_histogram) = ranking

\* C9: no entry with a NaN score comes before an entry with a finite score.
C9_NaNLast ==
    pc = "done" =>
        \A i, j \in DOMAIN ranking :
            (i < j /\ isnan(ranking[i][1])) => ~isfinite(ranking[j][1])

C9_Witness ==
    /\ pc = "done"
    /\ \E i, j \in DOMAIN ranking :
          /\ isfinite(ranking[i][1]) /\ isnan(ranking[j][1])
          /\ ranking[j][3] > ranking[i][3]

\* C10: from one entry to the next, churn does not increase within the
\* NaN-score part and score does not increase within the finite-score part.
C10_Descending ==
    pc = "done" =>
        \A i \in 1..(Len(ranking) - 1) :
            /\ (isnan(ranking[i][1]) /\ isnan(ranking[i + 1][1]))
                   => ranking[i][3] >= ranking[i + 1][3]
            /\ (isfinite(ranking[i][1]) /\ isfinite(ranking[i + 1][1]))
                   => FloatLeq(ranking[i + 1][1], ranking[i][1])

C10_Witness ==
    /\ pc = "done"
    /\ \E i \in 1..(Len(ranking) - 1) :
          /\ isnan(ranking[i][1]) /\ isnan(ranking[i + 1][1])
          /\ ranking[i][3] > ranking[i + 1][3]
    /\ \E i \in 1..(Len(ranking) - 1) :
          /\ isfinite(ranking[i][1]) /\ isfinite(ranking[i + 1][1])
          /\ FloatLess(ranking[i + 1][1], ranking[i][1])

====
